---- MODULE Spec2Model ----
(***************************************************************************)
(* Medication schedule and adherence engine of smart-medicine:             *)
(* the medication routes of the backend (persisted Medication documents),  *)
(* the MedicationsContext / medications service of the frontend and the    *)
(* Reminders page (todaysReminders, checkReminders).                       *)
(*                                                                         *)
(* Time is counted in ticks since 00:00 of day 1.  A day has DayLen ticks, *)
(* a wall-clock minute has TicksPerMinute ticks, so a slot time "HH:MM" is *)
(* a minute number within the day.                                         *)
(***************************************************************************)
EXTENDS Integers, Sequences, FiniteSets, TLC

\* ---------------------------------------------------------------- bounds
TicksPerMinute == 2
MaxNow == 7
MaxSupply == 2
MaxQty == 2
MaxDoses == 2
MaxRefills == 2
DueCap == 2
MaxShownSupply == 15
MaxDateNow == 5
MaxCalls == 4
MaxFetches == 3
MaxErrors == 2

\* two slot minutes per day ("00:00" and "00:01" of the model's short day)
DayLen == 2 * TicksPerMinute

MedList == <<"m1">>
MedIds == {MedList[k] : k \in 1..Len(MedList)}
SlotIndexes == {0}
NoMed == [deleted |-> TRUE]
NoDate == 0
NoTime == -1

Days == 1..((MaxNow \div DayLen) + 1)

Min(a, b) == IF a < b THEN a ELSE b
Max(a, b) == IF a > b THEN a ELSE b

\* ------------------------------------------------------------ clock helpers
\* new Date(y, m, d) of an instant: the day number and the start of that day
DayOf(t) == (t \div DayLen) + 1
StartOfDay(t) == (t \div DayLen) * DayLen
\* a stored date (ISO date, midnight) as an instant
DateInstant(d) == (d - 1) * DayLen
\* `${hours}:${minutes}` of an instant: the minute number within the day
CurrentTime(t) == (t % DayLen) \div TicksPerMinute
\* scheduledTime.setHours(h, m, 0, 0) on the day of instant t
ScheduledTime(t, time) == StartOfDay(t) + time * TicksPerMinute

\* -------------------------------------------------------------- documents
\* schedule entries as the forms create them: { time, taken: false, skipped: false }
NewSlot(time) == [time |-> time, taken |-> FALSE, skipped |-> FALSE, takenAt |-> NoTime, skippedReason |-> ""]

\* the refill threshold the add-medication form starts with
ReminderThreshold == 7

NewMedication(times, window, active, enabled, supply) ==
  [ isActive |-> active,
    startDate |-> window[1],
    endDate |-> window[2],
    schedule |-> [k \in 1..Len(times) |-> NewSlot(times[k])],
    refillReminder |-> [ enabled |-> enabled, daysBeforeEmpty |-> ReminderThreshold,
                        currentSupply |-> supply, lastRefillDate |-> NoDate ],
    refillHistory |-> <<>>,
    dosesRecord |-> <<>> ]

VARIABLES now, db, resp, reqs,
          medications, todaysReminders, memoAt, activeReminders, dueEvents, timerAt, mounted,
          supplyStatus,
          dateNow, lastFetchTime, fetchClosure, pendingEffects, pageMounted, inFlight, fetchLog,
          called, tickError, contacts

\* the state of the browser session: the MedicationsContext list and the
\* Reminders page (its memo, its reminder cards, its polling interval);
\* dueEvents is history: how often a reminder was raised for a key;
\* supplyStatus is the supply badge the Medications page last rendered for
\* each medication
clientVars == <<medications, todaysReminders, memoAt, activeReminders, dueEvents, timerAt, mounted,
                supplyStatus>>

\* the MedicationsProvider and its callers: dateNow is Date.now() in seconds,
\* lastFetchTime the provider's state, fetchClosure the lastFetchTime that the
\* fetchMedications of the last committed render closed over, pendingEffects
\* the [fetchMedications] effects the commit has still to run, pageMounted
\* whether the Medications page is shown, inFlight the GET / responses not yet
\* delivered; fetchLog (when each GET / was sent) and called (the last call of
\* fetchMedications and how many there were) are history
providerVars == <<dateNow, lastFetchTime, fetchClosure, pendingEffects, pageMounted, inFlight,
                  fetchLog, called>>

\* tickError is history: how many runs of checkReminders raised an error
\* and how many of those errors were caught and logged; contacts is the
\* EmergencyContact collection of the user
otherVars == <<providerVars, tickError, contacts>>

vars == <<now, db, resp, reqs, clientVars, otherVars>>

\* the response of the last completed request: what was called and the HTTP
\* status; nth and pre are history: how many identical successful calls were
\* made in a row (1, or 2 for two and more) and the supply before the first
Response(op, m, i, status, nth, pre) ==
  [op |-> op, med |-> m, idx |-> i, status |-> status, nth |-> nth, pre |-> pre]
NoResponse == Response("none", "none", -1, 0, 0, 0)

SameCall(op, m, i) == resp.op = op /\ resp.med = m /\ resp.idx = i /\ resp.status = 200

\* the response to a successful call on document med (as stored before the call)
Ok(op, m, i, med) ==
  IF SameCall(op, m, i)
    THEN Response(op, m, i, 200, 2, resp.pre)
    ELSE Response(op, m, i, 200, 1, med.refillReminder.currentSupply)

Failed(op, m, i, status) == Response(op, m, i, status, 0, 0)

\* requests being served concurrently: between its findOne and its save a
\* handler holds the document it loaded and the assignments it made
ReqIds == {"r1", "r2"}
NoReq == [idle |-> TRUE]

\* the browser session before the application is opened: useState([]) of the
\* context, the Reminders page not mounted
Keys == MedIds \X SlotIndexes \X Days

NoStatus == [label |-> "none"]

\* if (now - lastFetchTime < 2000), in seconds
FetchThrottle == 2

NoCall == [by |-> "none", n |-> 0]
NoTickError == [raised |-> 0, logged |-> 0]

ContactIds == {"c1", "c2"}
NoContact == [deleted |-> TRUE]

PagesClosed ==
  /\ medications = [m \in MedIds |-> NoMed]
  /\ todaysReminders = <<>>
  /\ memoAt = NoTime
  /\ activeReminders = {}
  /\ dueEvents = [k \in Keys |-> 0]
  /\ timerAt = NoTime
  /\ mounted = FALSE
  /\ supplyStatus = [m \in MedIds |-> NoStatus]
  /\ tickError = NoTickError

\* useState(0) of lastFetchTime with no fetch made; Date.now() is counted
\* from FetchThrottle seconds before the application is opened, so that, as
\* in the browser, the first call is not within the throttle of time 0
ProviderIdle ==
  /\ dateNow = FetchThrottle
  /\ lastFetchTime = 0
  /\ fetchClosure = 0
  /\ pendingEffects = {}
  /\ pageMounted = FALSE
  /\ inFlight = <<>>
  /\ fetchLog = <<>>
  /\ called = NoCall

ClientClosed ==
  /\ PagesClosed
  /\ ProviderIdle
  /\ contacts = [c \in ContactIds |-> NoContact]

\* the wall clock advances by one tick; a pending setInterval callback runs
\* when it is due
Tick ==
  /\ now < MaxNow
  /\ timerAt = NoTime \/ now < timerAt
  /\ now' = now + 1
  /\ UNCHANGED <<otherVars, db, resp, reqs, clientVars>>

\* request inputs
ReasonInputs == {"", "nausea"}
QtyInputs == -1..MaxQty

\* index < 0 || index >= medication.schedule.length
ValidIndex(med, i) == i >= 0 /\ i < Len(med.schedule)

\* document.save(): only the paths whose assigned value differs from the value
\* that was loaded are written ($set), pushed array elements are appended
\* ($push); every other path keeps what is stored
SaveSlot(cur, loaded, edited) ==
  [ time |-> cur.time,
    taken |-> IF edited.taken # loaded.taken THEN edited.taken ELSE cur.taken,
    skipped |-> IF edited.skipped # loaded.skipped THEN edited.skipped ELSE cur.skipped,
    takenAt |-> IF edited.takenAt # loaded.takenAt THEN edited.takenAt ELSE cur.takenAt,
    skippedReason |-> IF edited.skippedReason # loaded.skippedReason THEN edited.skippedReason ELSE cur.skippedReason ]

Pushed(loaded, edited) == SubSeq(edited, Len(loaded) + 1, Len(edited))

Save(cur, loaded, edited) ==
  [cur EXCEPT
     !.schedule = [k \in 1..Len(cur.schedule) |->
        IF k <= Len(loaded.schedule) THEN SaveSlot(cur.schedule[k], loaded.schedule[k], edited.schedule[k])
        ELSE cur.schedule[k]],
     !.refillReminder.currentSupply =
        IF edited.refillReminder.currentSupply # loaded.refillReminder.currentSupply
          THEN edited.refillReminder.currentSupply ELSE @,
     !.refillReminder.lastRefillDate =
        IF edited.refillReminder.lastRefillDate # loaded.refillReminder.lastRefillDate
          THEN edited.refillReminder.lastRefillDate ELSE @,
     !.refillHistory = @ \o Pushed(loaded.refillHistory, edited.refillHistory),
     !.dosesRecord = @ \o Pushed(loaded.dosesRecord, edited.dosesRecord)]

\* mutant of EditTaken: the route also applies one unit of consumption
EditTakenConsumes(med, i, t) ==
  [med EXCEPT !.schedule[i + 1].taken = TRUE,
              !.schedule[i + 1].takenAt = t,
              !.schedule[i + 1].skipped = FALSE,
              !.refillReminder.currentSupply = IF med.refillReminder.enabled THEN Max(0, @ - 1) ELSE @]

\* PUT /:id/schedule/:scheduleIndex/taken, the assignments to the loaded document
EditTaken(med, i, t) ==
  [med EXCEPT !.schedule[i + 1].taken = TRUE,
              !.schedule[i + 1].takenAt = t,
              !.schedule[i + 1].skipped = FALSE]

\* mutant of EditSkipped: the taken flag is not cleared
EditSkippedKeepsTaken(med, i, reason) ==
  [med EXCEPT !.schedule[i + 1].skipped = TRUE,
              !.schedule[i + 1].skippedReason = IF reason = "" THEN "No reason provided" ELSE reason]

\* PUT /:id/schedule/:scheduleIndex/skipped, the assignments to the loaded document
EditSkipped(med, i, reason) ==
  [med EXCEPT !.schedule[i + 1].skipped = TRUE,
              !.schedule[i + 1].skippedReason = IF reason = "" THEN "No reason provided" ELSE reason,
              !.schedule[i + 1].taken = FALSE]

\* POST /:id/dose, the push to the loaded document
EditDose(med, takenAt) ==
  [med EXCEPT !.dosesRecord = Append(@, takenAt)]

\* PUT /:id/schedule/:scheduleIndex/taken, the request served without interleaving
PutTaken(m, i) ==
  /\ IF db[m] = NoMed
       THEN /\ resp' = Failed("putTaken", m, i, 404)
            /\ UNCHANGED db
       ELSE IF ~ValidIndex(db[m], i)
         THEN /\ resp' = Failed("putTaken", m, i, 400)
              /\ UNCHANGED db
         ELSE /\ db' = [db EXCEPT ![m] = Save(db[m], db[m], EditTaken(db[m], i, now))]
              /\ resp' = Ok("putTaken", m, i, db[m])
  /\ UNCHANGED <<otherVars, now, reqs, clientVars>>

\* PUT /:id/schedule/:scheduleIndex/skipped, the request served without interleaving
PutSkipped(m, i, reason) ==
  /\ IF db[m] = NoMed
       THEN /\ resp' = Failed("putSkipped", m, i, 404)
            /\ UNCHANGED db
       ELSE IF ~ValidIndex(db[m], i)
         THEN /\ resp' = Failed("putSkipped", m, i, 400)
              /\ UNCHANGED db
         ELSE /\ db' = [db EXCEPT ![m] = Save(db[m], db[m], EditSkipped(db[m], i, reason))]
              /\ resp' = Ok("putSkipped", m, i, db[m])
  /\ UNCHANGED <<otherVars, now, reqs, clientVars>>

\* POST /:id/dose: appends { takenAt, notes } to dosesRecord; the body's
\* scheduleIndex is not read
ServePostDose(m, i, takenAt) ==
  IF db[m] = NoMed
    THEN /\ resp' = Failed("postDose", m, i, 404)
         /\ UNCHANGED db
    ELSE /\ Len(db[m].dosesRecord) < MaxDoses
         /\ db' = [db EXCEPT ![m] = Save(db[m], db[m], EditDose(db[m], takenAt))]
         /\ resp' = Ok("postDose", m, i, db[m])

\* POST /:id/dose called by a client other than the browser session
PostDose(m, i, takenAt) ==
  /\ ServePostDose(m, i, takenAt)
  /\ UNCHANGED <<otherVars, now, reqs, clientVars>>

\* medicationsAPI.markDoseTaken: POST /medications/:id/dose with
\* { scheduleIndex, takenAt: takenAt || new Date() }
ApiMarkDoseTaken(m, i) == PostDose(m, i, now)

\* mutant of RefillQuantityValid: the quantity is not validated
RefillQuantityAny(q) == TRUE

\* mutant of RefillQuantityValid: only negative quantities are rejected
RefillQuantityNonNegative(q) == q >= 0

\* body('refillQuantity').isInt({ min: 1 })
RefillQuantityValid(q) == q >= 1

\* the JSON forms in which a client can send an integer refillQuantity; the
\* isInt validator accepts both and does not convert (no toInt)
QtyForms == {"number", "string"}

\* the decimal digits of q written after those of a
RECURSIVE Concat(_, _)
Concat(a, q) == IF q < 10 THEN a * 10 + q ELSE Concat(a, q \div 10) * 10 + (q % 10)

\* currentSupply + refillQuantity in JavaScript, the result cast to Number by
\* the schema on save: a sum for a JSON number, the concatenation of the
\* decimal digits for a JSON string
JsPlus(a, q, form) == IF form = "string" THEN Concat(a, q) ELSE a + q

\* POST /:id/refill, the assignments to the loaded document
EditRefill(med, q, form, date) ==
  [med EXCEPT !.refillReminder.currentSupply = JsPlus(@, q, form),
              !.refillReminder.lastRefillDate = date,
              !.refillHistory = Append(@, [refillDate |-> date, quantity |-> q])]

\* POST /:id/refill, the request served without interleaving
PostRefill(m, q, form, date) ==
  /\ IF ~RefillQuantityValid(q)
       THEN /\ resp' = Failed("postRefill", m, q, 400)
            /\ UNCHANGED db
       ELSE IF db[m] = NoMed
         THEN /\ resp' = Failed("postRefill", m, q, 404)
              /\ UNCHANGED db
         ELSE /\ Len(db[m].refillHistory) < MaxRefills
              /\ db' = [db EXCEPT ![m] = Save(db[m], db[m], EditRefill(db[m], q, form, date))]
              /\ resp' = Ok("postRefill", m, q, db[m])
  /\ UNCHANGED <<otherVars, now, reqs, clientVars>>

\* schema validation of the Medication model on save: currentSupply is an
\* integer >= 0
SchemaValid(med) == med.refillReminder.currentSupply >= 0

\* POST /: new Medication({ ...req.body, user }).save(); the route validates
\* name, dosage, frequency, startDate and schedule, a ValidationError of the
\* model is answered with 400
CreateMedication(m, med) ==
  /\ db[m] = NoMed
  /\ IF ~SchemaValid(med)
       THEN /\ resp' = Failed("create", m, -1, 400)
            /\ UNCHANGED db
       ELSE /\ db' = [db EXCEPT ![m] = med]
            /\ resp' = Response("create", m, -1, 201, 1, med.refillReminder.currentSupply)
  /\ UNCHANGED <<otherVars, now, reqs, clientVars>>

\* DELETE /:id: findOneAndDelete
DeleteMedication(m) ==
  /\ IF db[m] = NoMed
       THEN /\ resp' = Failed("delete", m, -1, 404)
            /\ UNCHANGED db
       ELSE /\ db' = [db EXCEPT ![m] = NoMed]
            /\ resp' = Response("delete", m, -1, 200, 1, 0)
  /\ UNCHANGED <<otherVars, now, reqs, clientVars>>

\* ---------------------------------------------------------------- adherence
\* timesScheduled(m, d): the slots materialized for day d
TimesScheduled(med, d) ==
  IF med.isActive /\ d >= med.startDate /\ (med.endDate = NoDate \/ d <= med.endDate)
    THEN Len(med.schedule) ELSE 0

\* takenDoses of GET /:id/adherence is dosesRecord.length; per day, the dose
\* records whose takenAt falls on day d
TimesTaken(med, d) ==
  Cardinality({k \in 1..Len(med.dosesRecord) : DayOf(med.dosesRecord[k]) = d})

\* GET /:id/adherence: takenDoses = medication.dosesRecord.length
TakenDoses(med) == Len(med.dosesRecord)

\* mutant of AdherenceRate: the plain ratio, not clamped
AdherenceRateUnclamped(med, d) ==
  [num |-> TimesTaken(med, d), den |-> TimesScheduled(med, d)]

\* adherenceRate(m, d) as the fraction num / den: timesTaken / timesScheduled
\* clamped to [0, 1]
AdherenceRate(med, d) ==
  [num |-> Max(0, Min(TimesTaken(med, d), TimesScheduled(med, d))), den |-> TimesScheduled(med, d)]

\* ------------------------------------------------- dose routes, one at a time
\* one medication with one slot at minute 1; index 1 is outside its schedule
DoseIndexInputs == 0..1

Init ==
  /\ now = 0
  /\ \E e \in BOOLEAN, s \in 0..MaxSupply :
       db = [m \in MedIds |-> NewMedication(<<1>>, <<1, NoDate>>, TRUE, e, s)]
  /\ resp = NoResponse
  /\ reqs = [r \in ReqIds |-> NoReq]
  /\ ClientClosed

Next ==
  \/ Tick
  \/ \E m \in MedIds, i \in DoseIndexInputs : PutTaken(m, i)
  \/ \E m \in MedIds, i \in DoseIndexInputs, r \in ReasonInputs : PutSkipped(m, i, r)
  \/ \E m \in MedIds, i \in DoseIndexInputs : ApiMarkDoseTaken(m, i)

Spec == Init /\ [][Next]_vars

\* ------------------------------------------- dose routes served concurrently
\* PUT .../taken up to its await medication.save(): findOne, the index check
\* and the assignments
LoadTaken(r, m, i) ==
  /\ reqs[r] = NoReq
  /\ IF db[m] = NoMed
       THEN /\ resp' = Failed("putTaken", m, i, 404)
            /\ UNCHANGED reqs
       ELSE IF ~ValidIndex(db[m], i)
         THEN /\ resp' = Failed("putTaken", m, i, 400)
              /\ UNCHANGED reqs
         ELSE /\ reqs' = [reqs EXCEPT ![r] =
                   [op |-> "putTaken", med |-> m, idx |-> i, loaded |-> db[m], edited |-> EditTaken(db[m], i, now)]]
              /\ UNCHANGED resp
  /\ UNCHANGED <<otherVars, now, db, clientVars>>

\* PUT .../skipped up to its await medication.save()
LoadSkipped(r, m, i, reason) ==
  /\ reqs[r] = NoReq
  /\ IF db[m] = NoMed
       THEN /\ resp' = Failed("putSkipped", m, i, 404)
            /\ UNCHANGED reqs
       ELSE IF ~ValidIndex(db[m], i)
         THEN /\ resp' = Failed("putSkipped", m, i, 400)
              /\ UNCHANGED reqs
         ELSE /\ reqs' = [reqs EXCEPT ![r] =
                   [op |-> "putSkipped", med |-> m, idx |-> i, loaded |-> db[m], edited |-> EditSkipped(db[m], i, reason)]]
              /\ UNCHANGED resp
  /\ UNCHANGED <<otherVars, now, db, clientVars>>

\* await medication.save() and the response of a request that was loaded
SaveLoaded(r) ==
  /\ reqs[r] # NoReq
  /\ db[reqs[r].med] # NoMed
  /\ db' = [db EXCEPT ![reqs[r].med] = Save(@, reqs[r].loaded, reqs[r].edited)]
  /\ resp' = Ok(reqs[r].op, reqs[r].med, reqs[r].idx, db[reqs[r].med])
  /\ reqs' = [reqs EXCEPT ![r] = NoReq]
  /\ UNCHANGED <<otherVars, now, clientVars>>

\* the medication the concurrent requests are made on
RaceMedication == NewMedication(<<1>>, <<1, NoDate>>, TRUE, TRUE, 1)

InitRace ==
  /\ now = 0
  /\ db = [m \in MedIds |-> RaceMedication]
  /\ resp = NoResponse
  /\ reqs = [r \in ReqIds |-> NoReq]
  /\ ClientClosed

NextRace ==
  \/ \E r \in ReqIds, m \in MedIds, i \in DoseIndexInputs : LoadTaken(r, m, i)
  \/ \E r \in ReqIds, m \in MedIds, i \in DoseIndexInputs : LoadSkipped(r, m, i, "nausea")
  \/ \E r \in ReqIds : SaveLoaded(r)

SpecRace == InitRace /\ [][NextRace]_vars

\* the requests that hold a loaded document
Loaded == {r \in ReqIds : reqs[r] # NoReq}

\* POST /:id/refill up to its await medication.save(): validation, findOne
\* and the assignments
LoadRefill(r, m, q, date) ==
  /\ reqs[r] = NoReq
  /\ IF ~RefillQuantityValid(q)
       THEN /\ resp' = Failed("postRefill", m, q, 400)
            /\ UNCHANGED reqs
       ELSE IF db[m] = NoMed
         THEN /\ resp' = Failed("postRefill", m, q, 404)
              /\ UNCHANGED reqs
         ELSE /\ Len(db[m].refillHistory) + Cardinality(Loaded) < MaxRefills
              /\ reqs' = [reqs EXCEPT ![r] =
                   [op |-> "postRefill", med |-> m, idx |-> q, loaded |-> db[m],
                    edited |-> EditRefill(db[m], q, "number", date)]]
              /\ UNCHANGED resp
  /\ UNCHANGED <<otherVars, now, db, clientVars>>

NextRefillRace ==
  \/ \E r \in ReqIds, m \in MedIds, q \in QtyInputs, d \in Days : LoadRefill(r, m, q, d)
  \/ \E r \in ReqIds : SaveLoaded(r)

SpecRefillRace == InitRace /\ [][NextRefillRace]_vars

\* ------------------------------------------------------- the Reminders page
\* the status with the scheduled instant itself counted as late
StatusOfLateAtInstant(slot, t) ==
  IF slot.taken THEN "taken"
  ELSE IF slot.skipped THEN "skipped"
  ELSE IF t >= ScheduledTime(t, slot.time) THEN "missed"
  ELSE "upcoming"

\* todaysReminders: the status of a schedule entry at the time the memo runs
StatusOf(slot, t) ==
  IF slot.taken THEN "taken"
  ELSE IF slot.skipped THEN "skipped"
  ELSE IF t > ScheduledTime(t, slot.time) THEN "missed"
  ELSE "upcoming"

\* medications.flatMap(med => med.schedule.map((scheduleItem, index) => ...))
RECURSIVE FlatMap(_, _, _)
FlatMap(meds, t, k) ==
  IF k > Len(MedList) THEN <<>>
  ELSE LET m == MedList[k] IN
    (IF meds[m] = NoMed THEN <<>>
     ELSE [j \in 1..Len(meds[m].schedule) |->
            [ medicationId |-> m, scheduleIndex |-> j - 1,
              time |-> meds[m].schedule[j].time,
              status |-> StatusOf(meds[m].schedule[j], t) ]])
    \o FlatMap(meds, t, k + 1)

\* .sort((a, b) => a.time.localeCompare(b.time)), a stable sort
RECURSIVE InsertByTime(_, _)
InsertByTime(sorted, e) ==
  IF sorted = <<>> THEN <<e>>
  ELSE IF sorted[Len(sorted)].time <= e.time THEN Append(sorted, e)
  ELSE Append(InsertByTime(SubSeq(sorted, 1, Len(sorted) - 1), e), sorted[Len(sorted)])

RECURSIVE SortByTime(_)
SortByTime(entries) ==
  IF entries = <<>> THEN <<>>
  ELSE InsertByTime(SortByTime(SubSeq(entries, 1, Len(entries) - 1)), entries[Len(entries)])

ComputeReminders(meds, t) == SortByTime(FlatMap(meds, t, 1))

\* the due test with the minute that ends at the scheduled time as the window
DueNowBeforeInstant(meds, t) ==
  {id \in MedIds \X SlotIndexes :
     /\ meds[id[1]] # NoMed
     /\ ValidIndex(meds[id[1]], id[2])
     /\ LET slot == meds[id[1]].schedule[id[2] + 1] IN
          slot.time = CurrentTime(t) + 1 /\ ~slot.taken /\ ~slot.skipped}

\* the due test with every slot whose time has come today counted as due
DueNowOrOverdue(meds, t) ==
  {id \in MedIds \X SlotIndexes :
     /\ meds[id[1]] # NoMed
     /\ ValidIndex(meds[id[1]], id[2])
     /\ LET slot == meds[id[1]].schedule[id[2] + 1] IN
          slot.time <= CurrentTime(t) /\ ~slot.taken /\ ~slot.skipped}

\* checkReminders: the reminder ids `${med._id}-${scheduleIndex}` whose slot
\* time equals the current HH:MM and that are neither taken nor skipped
DueNow(meds, t) ==
  {id \in MedIds \X SlotIndexes :
     /\ meds[id[1]] # NoMed
     /\ ValidIndex(meds[id[1]], id[2])
     /\ LET slot == meds[id[1]].schedule[id[2] + 1] IN
          slot.time = CurrentTime(t) /\ ~slot.taken /\ ~slot.skipped}

\* the toast (and browser notification) checkReminders raises for each due id
Raise(events, due, t) ==
  [k \in Keys |->
     IF <<k[1], k[2]>> \in due /\ k[3] = DayOf(t) THEN Min(events[k] + 1, DueCap) ELSE events[k]]

NoMedications(meds) == \A m \in MedIds : meds[m] = NoMed

\* a render of the page with a new medications array: the memo is recomputed
\* and the polling effect is torn down and set up again, which calls
\* checkReminders at once and restarts the 60 s interval; cards is
\* activeReminders as the event handler left it
Render(meds, cards, isMounted) ==
  /\ medications' = meds
  /\ UNCHANGED supplyStatus
  /\ mounted' = isMounted
  /\ IF ~isMounted
       THEN /\ todaysReminders' = <<>>
            /\ memoAt' = NoTime
            /\ activeReminders' = {}
            /\ timerAt' = NoTime
            /\ UNCHANGED dueEvents
       ELSE /\ todaysReminders' = ComputeReminders(meds, now)
            /\ memoAt' = now
            /\ IF NoMedications(meds)
                 THEN /\ timerAt' = NoTime
                      /\ activeReminders' = cards
                      /\ UNCHANGED dueEvents
                 ELSE /\ timerAt' = now + TicksPerMinute
                      /\ activeReminders' = cards \cup DueNow(meds, now)
                      /\ dueEvents' = Raise(dueEvents, DueNow(meds, now), now)

\* the Reminders page is opened
MountReminders ==
  /\ ~mounted
  /\ Render(medications, {}, TRUE)
  /\ UNCHANGED <<otherVars, now, db, resp, reqs>>

\* the Reminders page is closed: clearInterval
UnmountReminders ==
  /\ mounted
  /\ Render(medications, {}, FALSE)
  /\ UNCHANGED <<otherVars, now, db, resp, reqs>>

\* the setInterval(checkReminders, 60000) callback
IntervalFire ==
  /\ mounted
  /\ timerAt # NoTime /\ timerAt <= now
  /\ timerAt' = now + TicksPerMinute
  /\ activeReminders' = activeReminders \cup DueNow(medications, now)
  /\ dueEvents' = Raise(dueEvents, DueNow(medications, now), now)
  /\ UNCHANGED <<otherVars, now, db, resp, reqs, medications, todaysReminders, memoAt, mounted, supplyStatus>>

\* fetchMedications: GET / and setMedications(data)
FetchMedications ==
  /\ Render(db, activeReminders, mounted)
  /\ UNCHANGED <<otherVars, now, db, resp, reqs>>

\* the mark-taken buttons: the Medications page and the 'upcoming' rows show
\* one for a slot that is neither taken nor skipped, a reminder card always
CanMark(m, i) ==
  /\ medications[m] # NoMed
  /\ ValidIndex(medications[m], i)
  /\ \/ mounted /\ <<m, i>> \in activeReminders
     \/ ~medications[m].schedule[i + 1].taken /\ ~medications[m].schedule[i + 1].skipped

\* markDoseTaken of the context, called by handleTakeDose / handleDoseTaken:
\* medicationsAPI.markDoseTaken, then the medication is replaced by the
\* response and the reminder card is removed
MarkDoseTaken(m, i) ==
  /\ CanMark(m, i)
  /\ ServePostDose(m, i, now)
  /\ IF resp'.status = 200
       THEN Render([medications EXCEPT ![m] = db'[m]], activeReminders \ {<<m, i>>}, mounted)
       ELSE UNCHANGED clientVars
  /\ UNCHANGED <<otherVars, now, reqs>>

\* markDoseSkipped of the context: medicationsAPI.markDoseSkipped posts to
\* /medications/:id/skip, a path no route serves, so the call is answered 404
\* and rethrown
MarkDoseSkipped(m, i) ==
  /\ CanMark(m, i)
  /\ resp' = Failed("postSkip", m, i, 404)
  /\ UNCHANGED <<otherVars, now, db, reqs, clientVars>>

\* dismissReminder: the card's close button
DismissReminder(id) ==
  /\ mounted
  /\ id \in activeReminders
  /\ activeReminders' = activeReminders \ {id}
  /\ UNCHANGED <<otherVars, now, db, resp, reqs, medications, todaysReminders, memoAt, dueEvents, timerAt, mounted,
                 supplyStatus>>

\* PUT /:id with { isActive: false }: findOneAndUpdate
Deactivate(m) ==
  /\ IF db[m] = NoMed
       THEN /\ resp' = Failed("update", m, -1, 404)
            /\ UNCHANGED db
       ELSE /\ db[m].isActive
            /\ db' = [db EXCEPT ![m].isActive = FALSE]
            /\ resp' = Response("update", m, -1, 200, 1, 0)
  /\ UNCHANGED <<otherVars, now, reqs, clientVars>>

WindowChoices == {<<1, NoDate>>, <<2, NoDate>>, <<1, 1>>}

InitClient ==
  /\ now = 0
  /\ \E w \in WindowChoices :
       db = [m \in MedIds |-> NewMedication(<<1>>, w, TRUE, FALSE, 0)]
  /\ resp = NoResponse
  /\ reqs = [r \in ReqIds |-> NoReq]
  /\ ClientClosed

NextClient ==
  \/ Tick
  \/ MountReminders
  \/ UnmountReminders
  \/ IntervalFire
  \/ FetchMedications
  \/ \E m \in MedIds, i \in SlotIndexes : MarkDoseTaken(m, i)
  \/ \E m \in MedIds, i \in SlotIndexes : MarkDoseSkipped(m, i)
  \/ \E id \in MedIds \X SlotIndexes : DismissReminder(id)
  \/ \E m \in MedIds : Deactivate(m)

SpecClient == InitClient /\ [][NextClient]_vars

\* the Reminders page open while the slots are marked through the schedule
\* routes
NextToday ==
  \/ Tick
  \/ MountReminders
  \/ UnmountReminders
  \/ IntervalFire
  \/ FetchMedications
  \/ \E m \in MedIds, i \in SlotIndexes : PutTaken(m, i)
  \/ \E m \in MedIds, i \in SlotIndexes : PutSkipped(m, i, "")

SpecToday == InitClient /\ [][NextToday]_vars

\* the interval callback runs late: a timer fires no earlier than its delay,
\* and here the clock passes the due instant before the callback is run
TimerLate ==
  /\ mounted
  /\ timerAt = now
  /\ now < MaxNow
  /\ now' = now + 1
  /\ UNCHANGED <<otherVars, db, resp, reqs, clientVars>>

\* the Reminders page polling, with timers that may run late
NextPoll ==
  \/ Tick
  \/ TimerLate
  \/ MountReminders
  \/ UnmountReminders
  \/ IntervalFire
  \/ FetchMedications

\* the clock advances and a due interval callback is eventually run
SpecPoll ==
  /\ InitClient
  /\ [][NextPoll]_vars
  /\ WF_vars(Tick)
  /\ WF_vars(IntervalFire)

\* the page opened, closed and re-opened at any time of the day, for a slot
\* early or late in the day
SlotTimes == {0, 1}

InitRestart ==
  /\ now = 0
  /\ \E time \in SlotTimes :
       db = [m \in MedIds |-> NewMedication(<<time>>, <<1, NoDate>>, TRUE, FALSE, 0)]
  /\ resp = NoResponse
  /\ reqs = [r \in ReqIds |-> NoReq]
  /\ ClientClosed

SpecRestart == InitRestart /\ [][NextPoll]_vars

\* the interval callback on a platform whose Notification constructor throws
\* (notification permission granted): checkReminders has no try/catch, the
\* error leaves the callback before setActiveReminders and toast are reached;
\* the interval itself stays registered
IntervalFireThrows ==
  /\ mounted
  /\ timerAt # NoTime /\ timerAt <= now
  /\ DueNow(medications, now) # {}
  /\ tickError.raised < MaxErrors
  /\ timerAt' = now + TicksPerMinute
  /\ tickError' = [tickError EXCEPT !.raised = @ + 1]
  /\ UNCHANGED <<providerVars, contacts, now, db, resp, reqs, medications, todaysReminders, memoAt,
                 activeReminders, dueEvents, mounted, supplyStatus>>

\* the page is opened on such a platform while a dose is due: the immediate
\* checkReminders() throws inside the effect, setInterval is not reached, and
\* with no error boundary the rendered tree is removed
MountRemindersThrows ==
  /\ ~mounted
  /\ DueNow(medications, now) # {}
  /\ tickError.raised < MaxErrors
  /\ tickError' = [tickError EXCEPT !.raised = @ + 1]
  /\ UNCHANGED <<providerVars, contacts, now, db, resp, reqs, medications, todaysReminders, memoAt,
                 activeReminders, dueEvents, timerAt, mounted, supplyStatus>>

NextCrash ==
  \/ Tick
  \/ MountReminders
  \/ UnmountReminders
  \/ IntervalFire
  \/ FetchMedications
  \/ IntervalFireThrows
  \/ MountRemindersThrows

SpecCrash == InitRestart /\ [][NextCrash]_vars

\* ----------------------------------------------------- the Medications page
\* the supply thresholds of getCurrentSupplyStatus
LowSupply == 7
MediumSupply == 14

\* getCurrentSupplyStatus(med): the label of the supply badge
GetCurrentSupplyStatus(med) ==
  LET supply == med.refillReminder.currentSupply IN
    IF supply <= LowSupply THEN "Low"
    ELSE IF supply <= MediumSupply THEN "Medium"
    ELSE "Good"

\* the Medications page renders its cards: for every medication of the
\* context the supply badge is computed from the medication shown
ShowMedications ==
  /\ supplyStatus' =
       [m \in MedIds |->
          IF medications[m] = NoMed THEN NoStatus
          ELSE [ label |-> GetCurrentSupplyStatus(medications[m]),
                 currentSupply |-> medications[m].refillReminder.currentSupply,
                 daysBeforeEmpty |-> medications[m].refillReminder.daysBeforeEmpty ]]
  /\ UNCHANGED <<otherVars, now, db, resp, reqs, medications, todaysReminders, memoAt, activeReminders,
                 dueEvents, timerAt, mounted>>

\* the thresholds and supplies entered in the add-medication form
ThresholdChoices == {3, 7}
ShownSupplies == 0..MaxShownSupply

InitTier ==
  /\ now = 0
  /\ \E days \in ThresholdChoices, supply \in ShownSupplies :
       db = [m \in MedIds |->
              [NewMedication(<<1>>, <<1, NoDate>>, TRUE, TRUE, supply)
                 EXCEPT !.refillReminder.daysBeforeEmpty = days]]
  /\ resp = NoResponse
  /\ reqs = [r \in ReqIds |-> NoReq]
  /\ ClientClosed

NextTier ==
  \/ FetchMedications
  \/ ShowMedications
  \/ \E m \in MedIds, q \in QtyInputs, d \in Days : PostRefill(m, q, "number", d)

SpecTier == InitTier /\ [][NextTier]_vars

\* ------------------------------------------------------------ supply ledger
\* AddMedicationModal: currentSupply is parseInt(input) || 0, any integer
SupplyInputs == -1..MaxSupply

InitSupply ==
  /\ now = 0
  /\ db = [m \in MedIds |-> NoMed]
  /\ resp = NoResponse
  /\ reqs = [r \in ReqIds |-> NoReq]
  /\ ClientClosed

NextSupply ==
  \/ \E m \in MedIds, e \in BOOLEAN, s \in SupplyInputs :
       CreateMedication(m, NewMedication(<<1>>, <<1, NoDate>>, TRUE, e, s))
  \/ \E m \in MedIds : DeleteMedication(m)
  \/ \E m \in MedIds, q \in QtyInputs, form \in QtyForms, d \in Days :
       PostRefill(m, q, form, d)
  \/ \E m \in MedIds, i \in DoseIndexInputs : PutTaken(m, i)
  \/ \E m \in MedIds, i \in DoseIndexInputs : ApiMarkDoseTaken(m, i)

SpecSupply == InitSupply /\ [][NextSupply]_vars

\* ------------------------------------------------- the MedicationsProvider
\* if (now - lastFetchTime < 2000) return, lastFetchTime being the value the
\* useCallback closed over
Throttled(closure, state, t) == t - closure < FetchThrottle

\* one call of fetchMedications with a stored token: the throttle test, then
\* setLastFetchTime(now) and GET /, which the server answers with the
\* documents it holds at that moment
CallFetch(by) ==
  /\ called.n < MaxCalls
  /\ Len(fetchLog) < MaxFetches
  /\ called' = [by |-> by, n |-> called.n + 1]
  /\ IF Throttled(fetchClosure, lastFetchTime, dateNow)
       THEN UNCHANGED <<lastFetchTime, inFlight, fetchLog>>
       ELSE /\ lastFetchTime' = dateNow
            /\ inFlight' = Append(inFlight, db)
            /\ fetchLog' = Append(fetchLog, dateNow)

\* every effect of the last commit has run and no state update waits for a
\* render
Settled == pendingEffects = {} /\ fetchClosure = lastFetchTime

\* the effects with dependency [fetchMedications]: the provider's mount
\* effect and the fetch effect of the Medications page
RunEffect(e) ==
  /\ e \in pendingEffects
  /\ CallFetch(e)
  /\ pendingEffects' = pendingEffects \ {e}
  /\ UNCHANGED <<dateNow, fetchClosure, pageMounted>>
  /\ UNCHANGED <<now, db, resp, reqs, clientVars, tickError, contacts>>

\* the render that follows setLastFetchTime: useCallback returns a new
\* fetchMedications, so the effects that depend on it run again
Commit ==
  /\ pendingEffects = {}
  /\ fetchClosure # lastFetchTime
  /\ fetchClosure' = lastFetchTime
  /\ pendingEffects' = {"provider"} \cup (IF pageMounted THEN {"page"} ELSE {})
  /\ UNCHANGED <<dateNow, lastFetchTime, pageMounted, inFlight, fetchLog, called>>
  /\ UNCHANGED <<now, db, resp, reqs, clientVars, tickError, contacts>>

\* the user navigates to the Medications page
MountPage ==
  /\ Settled
  /\ ~pageMounted
  /\ pageMounted' = TRUE
  /\ pendingEffects' = {"page"}
  /\ UNCHANGED <<dateNow, lastFetchTime, fetchClosure, inFlight, fetchLog, called>>
  /\ UNCHANGED <<now, db, resp, reqs, clientVars, tickError, contacts>>

\* the user navigates away from it
UnmountPage ==
  /\ Settled
  /\ pageMounted
  /\ pageMounted' = FALSE
  /\ UNCHANGED <<dateNow, lastFetchTime, fetchClosure, pendingEffects, inFlight, fetchLog, called>>
  /\ UNCHANGED <<now, db, resp, reqs, clientVars, tickError, contacts>>

\* refreshMedications of the context: await fetchMedications()
RefreshMedications ==
  /\ Settled
  /\ CallFetch("refresh")
  /\ UNCHANGED <<dateNow, fetchClosure, pendingEffects, pageMounted>>
  /\ UNCHANGED <<now, db, resp, reqs, clientVars, tickError, contacts>>

\* a second passes
AdvanceClock ==
  /\ Settled
  /\ dateNow < MaxDateNow
  /\ dateNow' = dateNow + 1
  /\ UNCHANGED <<lastFetchTime, fetchClosure, pendingEffects, pageMounted, inFlight, fetchLog, called>>
  /\ UNCHANGED <<now, db, resp, reqs, clientVars, tickError, contacts>>

Without(seq, k) == SubSeq(seq, 1, k - 1) \o SubSeq(seq, k + 1, Len(seq))

\* the response of a GET / arrives: setMedications(data)
DeliverFetch(k) ==
  /\ k \in 1..Len(inFlight)
  /\ Render(inFlight[k], activeReminders, mounted)
  /\ inFlight' = Without(inFlight, k)
  /\ UNCHANGED <<dateNow, lastFetchTime, fetchClosure, pendingEffects, pageMounted, fetchLog, called>>
  /\ UNCHANGED <<now, db, resp, reqs, tickError, contacts>>

\* the application is opened by a logged-in user: the provider is mounted and
\* its effect is to run; when the opened route is /medications and the route
\* guard lets it render at once, the page's effect belongs to the same commit
InitFetch ==
  /\ now = 0
  /\ db = [m \in MedIds |-> NewMedication(<<1>>, <<1, NoDate>>, TRUE, FALSE, 0)]
  /\ resp = NoResponse
  /\ reqs = [r \in ReqIds |-> NoReq]
  /\ PagesClosed
  /\ dateNow = FetchThrottle
  /\ lastFetchTime = 0
  /\ fetchClosure = 0
  /\ \E page \in BOOLEAN :
       /\ pageMounted = page
       /\ pendingEffects = {"provider"} \cup (IF page THEN {"page"} ELSE {})
  /\ inFlight = <<>>
  /\ fetchLog = <<>>
  /\ called = NoCall
  /\ contacts = [c \in ContactIds |-> NoContact]

NextFetch ==
  \/ \E e \in {"provider", "page"} : RunEffect(e)
  \/ Commit
  \/ MountPage
  \/ UnmountPage
  \/ RefreshMedications
  \/ AdvanceClock
  \/ \E k \in 1..MaxFetches : DeliverFetch(k)
  \/ \E m \in MedIds, i \in SlotIndexes : MarkDoseTaken(m, i)

SpecFetch == InitFetch /\ [][NextFetch]_vars

\* the application opened on another route: the Medications page is mounted
\* by a later navigation, never in the provider's first commit
InitNavigate == InitFetch /\ ~pageMounted

SpecNavigate == InitNavigate /\ [][NextFetch]_vars

\* ------------------------------------------------------ emergency contacts
\* the requests of /api/emergency-contacts served concurrently: every await
\* of a handler and of the pre('save') hook is a step of its own. A request
\* holds the document it works on (doc), whether isPrimary was modified since
\* it was loaded, and the await it has reached
ContactRequest(op, c, isPrimary, modified, phase) ==
  [op |-> op, contact |-> c, isPrimary |-> isPrimary, modified |-> modified, phase |-> phase]

ContactResponse(op, c, status) == Response(op, c, -1, status, 1, 0)

\* POST /: new EmergencyContact({ ..., isPrimary: isPrimary || false }), up to
\* contact.save()
CreateContact(r, c, isPrimary) ==
  /\ reqs[r] = NoReq
  /\ contacts[c] = NoContact
  /\ \A q \in ReqIds : reqs[q] # NoReq => reqs[q].contact # c
  /\ reqs' = [reqs EXCEPT ![r] = ContactRequest("createContact", c, isPrimary, TRUE, "hook")]
  /\ UNCHANGED <<providerVars, tickError, contacts, now, db, resp, clientVars>>

\* PUT /:id with isPrimary in the body: findOne and the assignment, up to
\* contact.save()
UpdateContact(r, c, isPrimary) ==
  /\ reqs[r] = NoReq
  /\ IF contacts[c] = NoContact
       THEN /\ resp' = ContactResponse("updateContact", c, 404)
            /\ UNCHANGED reqs
       ELSE /\ reqs' = [reqs EXCEPT ![r] =
                 ContactRequest("updateContact", c, isPrimary, isPrimary # contacts[c].isPrimary, "hook")]
            /\ UNCHANGED resp
  /\ UNCHANGED <<providerVars, tickError, contacts, now, db, clientVars>>

\* PUT /:id/set-primary: findOne, up to the updateMany
SetPrimary(r, c) ==
  /\ reqs[r] = NoReq
  /\ IF contacts[c] = NoContact
       THEN /\ resp' = ContactResponse("setPrimary", c, 404)
            /\ UNCHANGED reqs
       ELSE /\ reqs' = [reqs EXCEPT ![r] =
                 ContactRequest("setPrimary", c, contacts[c].isPrimary, FALSE, "clear")]
            /\ UNCHANGED resp
  /\ UNCHANGED <<providerVars, tickError, contacts, now, db, clientVars>>

\* updateMany({ userId }, { $set: { isPrimary: false } }) of set-primary,
\* then contact.isPrimary = true on the document loaded before, up to
\* contact.save()
ClearAll(r) ==
  /\ reqs[r] # NoReq
  /\ reqs[r].phase = "clear"
  /\ contacts' = [c \in ContactIds |->
                    IF contacts[c] = NoContact THEN NoContact ELSE [contacts[c] EXCEPT !.isPrimary = FALSE]]
  /\ reqs' = [reqs EXCEPT ![r] =
       ContactRequest(@.op, @.contact, TRUE, ~@.isPrimary, "hook")]
  /\ UNCHANGED <<providerVars, tickError, now, db, resp, clientVars>>

\* emergencyContactSchema.pre('save'): if (this.isPrimary) updateMany of the
\* user's other contacts to isPrimary false
PreSave(r) ==
  /\ reqs[r] # NoReq
  /\ reqs[r].phase = "hook"
  /\ contacts' = [c \in ContactIds |->
                    IF reqs[r].isPrimary /\ c # reqs[r].contact /\ contacts[c] # NoContact
                      THEN [contacts[c] EXCEPT !.isPrimary = FALSE]
                      ELSE contacts[c]]
  /\ reqs' = [reqs EXCEPT ![r].phase = "write"]
  /\ UNCHANGED <<providerVars, tickError, now, db, resp, clientVars>>

\* the write of save(): the insert of a new document, or the $set of the
\* modified isPrimary on the stored one (a document deleted meanwhile is not
\* written and the request is answered 500)
WriteContact(r) ==
  /\ reqs[r] # NoReq
  /\ reqs[r].phase = "write"
  /\ LET c == reqs[r].contact IN
       IF reqs[r].op = "createContact"
         THEN /\ contacts' = [contacts EXCEPT ![c] = [isPrimary |-> reqs[r].isPrimary]]
              /\ resp' = ContactResponse(reqs[r].op, c, 201)
         ELSE IF contacts[c] = NoContact
           THEN /\ UNCHANGED contacts
                /\ resp' = ContactResponse(reqs[r].op, c, 500)
           ELSE /\ contacts' = [contacts EXCEPT ![c].isPrimary =
                                  IF reqs[r].modified THEN reqs[r].isPrimary ELSE @]
                /\ resp' = ContactResponse(reqs[r].op, c, 200)
  /\ reqs' = [reqs EXCEPT ![r] = NoReq]
  /\ UNCHANGED <<providerVars, tickError, now, db, clientVars>>

\* DELETE /:id: findOneAndDelete
DeleteContact(c) ==
  /\ IF contacts[c] = NoContact
       THEN /\ resp' = ContactResponse("deleteContact", c, 404)
            /\ UNCHANGED contacts
       ELSE /\ contacts' = [contacts EXCEPT ![c] = NoContact]
            /\ resp' = ContactResponse("deleteContact", c, 200)
  /\ UNCHANGED <<providerVars, tickError, now, db, reqs, clientVars>>

InitContacts ==
  /\ now = 0
  /\ db = [m \in MedIds |-> NoMed]
  /\ resp = NoResponse
  /\ reqs = [r \in ReqIds |-> NoReq]
  /\ ClientClosed

NextContacts ==
  \/ \E r \in ReqIds, c \in ContactIds, p \in BOOLEAN : CreateContact(r, c, p)
  \/ \E r \in ReqIds, c \in ContactIds, p \in BOOLEAN : UpdateContact(r, c, p)
  \/ \E r \in ReqIds, c \in ContactIds : SetPrimary(r, c)
  \/ \E r \in ReqIds : ClearAll(r)
  \/ \E r \in ReqIds : PreSave(r)
  \/ \E r \in ReqIds : WriteContact(r)
  \/ \E c \in ContactIds : DeleteContact(c)

SpecContacts == InitContacts /\ [][NextContacts]_vars

\* ------------------------------------------------------------------- claims
Slots(m) == IF db[m] = NoMed THEN {} ELSE 1..Len(db[m].schedule)

\* a slot that PUT .../taken or PUT .../skipped has written at least once
Marked(slot) == slot.takenAt # NoTime \/ slot.skippedReason # ""

\* C1: after any sequence of PUT .../taken and PUT .../skipped requests served
\* one after the other, a slot that was marked has exactly one of taken and
\* skipped set, and no slot ever has both
C1_ExactlyOneFlag ==
  \A m \in MedIds : \A k \in Slots(m) :
    LET slot == db[m].schedule[k] IN
      /\ ~(slot.taken /\ slot.skipped)
      /\ Marked(slot) => (slot.taken \/ slot.skipped)

\* a slot that was marked taken and then marked skipped
C1_Witness ==
  \E m \in MedIds : \E k \in Slots(m) :
    LET slot == db[m].schedule[k] IN
      slot.skipped /\ ~slot.taken /\ slot.takenAt # NoTime

\* C2: a markDoseTaken(m, i) call that immediately follows an identical
\* successful call (same medication, slot index and takenAt) leaves the
\* persisted document unchanged
C2_RepeatedMarkTakenChangesNothing ==
  [][\A m \in MedIds : \A i \in DoseIndexInputs :
       ( /\ SameCall("postDose", m, i)
         /\ db[m] # NoMed
         /\ Len(db[m].dosesRecord) > 0
         /\ db[m].dosesRecord[Len(db[m].dosesRecord)] = now
         /\ ApiMarkDoseTaken(m, i) )
       => db' = db]_vars

\* the last two successful requests were the same mark-taken call on a
\* medication with refill tracking enabled and at least one unit of supply
TwiceMarkedTaken(m) ==
  /\ db[m] # NoMed
  /\ resp.op \in {"postDose", "putTaken"}
  /\ resp.med = m
  /\ resp.status = 200
  /\ resp.nth = 2
  /\ db[m].refillReminder.enabled
  /\ resp.pre >= 1

C5_LastAppliedWins ==
  \A m \in MedIds : \A k \in Slots(m) :
    LET slot == db[m].schedule[k] IN
      /\ ~(slot.taken /\ slot.skipped)
      /\ ( /\ \A r \in ReqIds : reqs[r] = NoReq
           /\ resp.status = 200 /\ resp.med = m /\ resp.idx = k - 1 )
         => /\ resp.op = "putTaken" => (slot.taken /\ ~slot.skipped)
            /\ resp.op = "putSkipped" => (slot.skipped /\ ~slot.taken)

C4_AtMostOneDoseDuePerKey == \A k \in Keys : dueEvents[k] <= 1

\* ------------------------------------------------------------------- C6
\* C6, as stated: marking a dose taken on an instance that is neither taken
\* nor skipped succeeds and leaves the instance with status taken
C6_MarkTakenYieldsTaken ==
  [][\A m \in MedIds, i \in SlotIndexes :
       ( /\ db[m] # NoMed
         /\ ~db[m].schedule[i + 1].taken /\ ~db[m].schedule[i + 1].skipped
         /\ resp'.op = "postDose" /\ resp'.med = m /\ resp'.idx = i
         /\ db' # db )
       => /\ resp'.status = 200
          /\ StatusOf(db'[m].schedule[i + 1], now) = "taken"]_vars

\* ------------------------------------------------------------------- C7
\* the claim's window: d is not before startDate, not after a set endDate,
\* and the medication is active
InWindow(med, d) ==
  /\ d >= med.startDate
  /\ med.endDate = NoDate \/ d <= med.endDate

\* C7, as stated: no dose instance is listed for the day, and none is
\* considered by the reminder poll, for a medication that is inactive or
\* whose window does not contain the day
C7_NoInstanceOutsideWindow ==
  /\ \A j \in 1..Len(todaysReminders) :
       LET med == medications[todaysReminders[j].medicationId] IN
         med.isActive /\ InWindow(med, DayOf(memoAt))
  /\ \A k \in Keys :
       dueEvents[k] > 0 => InWindow(db[k[1]], k[3])

\* ------------------------------------------------------------------ C10
\* the derivation the claim states: missed from the scheduled instant on,
\* due within one poll period before it
ClaimedStatus(slot, t) ==
  IF slot.taken THEN "taken"
  ELSE IF slot.skipped THEN "skipped"
  ELSE IF t >= ScheduledTime(t, slot.time) THEN "missed"
  ELSE IF ScheduledTime(t, slot.time) - t <= TicksPerMinute THEN "due"
  ELSE "upcoming"

ListedSlot(j) ==
  medications[todaysReminders[j].medicationId].schedule[todaysReminders[j].scheduleIndex + 1]

\* C10, as stated: the listed status is taken, else skipped, else missed
\* when now >= scheduledTime, else due inside the poll window, else upcoming
C10_StatusAsClaimed ==
  \A j \in 1..Len(todaysReminders) :
    todaysReminders[j].status = ClaimedStatus(ListedSlot(j), memoAt)

\* C10, amended: the listed status is taken if the slot is taken, else
\* skipped if it is skipped, else missed only when now is strictly after
\* scheduledTime, else upcoming; no due status is derived
C10_StatusDerivation ==
  \A j \in 1..Len(todaysReminders) :
    LET slot == ListedSlot(j)
        late == memoAt > ScheduledTime(memoAt, slot.time)
        status == todaysReminders[j].status
    IN /\ slot.taken => status = "taken"
       /\ ~slot.taken /\ slot.skipped => status = "skipped"
       /\ ~slot.taken /\ ~slot.skipped /\ late => status = "missed"
       /\ ~slot.taken /\ ~slot.skipped /\ ~late => status = "upcoming"

\* a slot listed at exactly its scheduled instant, neither taken nor skipped
C10_Witness ==
  /\ mounted
  /\ \E j \in 1..Len(todaysReminders) :
       /\ ~ListedSlot(j).taken /\ ~ListedSlot(j).skipped
       /\ memoAt = ScheduledTime(memoAt, ListedSlot(j).time)
       /\ todaysReminders[j].status = "upcoming"

\* ------------------------------------------------------------------ C11
\* the scheduled instant of the dose instance of a key
KeyInstant(k) ==
  DateInstant(k[3]) + db[k[1]].schedule[k[2] + 1].time * TicksPerMinute

\* the poll is running over the instance of key k: the page is open with its
\* interval set, the medication is active, the day is inside its window and
\* the slot is neither taken nor skipped, in the store and in the page's list
Watched(k) ==
  /\ mounted /\ timerAt # NoTime
  /\ db[k[1]] # NoMed /\ medications[k[1]] # NoMed
  /\ db[k[1]].isActive /\ InWindow(db[k[1]], k[3])
  /\ ~db[k[1]].schedule[k[2] + 1].taken /\ ~db[k[1]].schedule[k[2] + 1].skipped
  /\ ~medications[k[1]].schedule[k[2] + 1].taken
  /\ ~medications[k[1]].schedule[k[2] + 1].skipped

\* C11, as stated: a poll that runs from before the scheduled time of an
\* instance until after it, the instance staying active and neither taken
\* nor skipped, raises DoseDue for it. A reminder is only ever raised during
\* the minute of the scheduled time, so eventually means by the end of that
\* minute: when the page has shown the same list since before the scheduled
\* time (memoAt) and that minute is over, a DoseDue was raised for the key
C11_EveryDoseGetsReminder ==
  \A k \in Keys :
    ( /\ Watched(k)
      /\ memoAt # NoTime /\ memoAt < KeyInstant(k)
      /\ now >= KeyInstant(k) + TicksPerMinute )
    => dueEvents[k] > 0

\* ------------------------------------------------------------------ C12
\* C12, as stated: once an instance with an outstanding reminder is no
\* longer due, because the user marked it taken or skipped or because its
\* time passed, its alert is dismissed: after a user's mark the card of that
\* key is gone, and after every poll each card left is for an instance that
\* is due at that instant
C12_AlertDismissedOnLeavingDue ==
  [][ /\ \A m \in MedIds, i \in SlotIndexes :
           ( /\ mounted /\ <<m, i>> \in activeReminders
             /\ resp'.op \in {"postDose", "postSkip"}
             /\ resp'.med = m /\ resp'.idx = i
             /\ <<db', resp'>> # <<db, resp>> )
           => <<m, i>> \notin activeReminders'
      /\ (mounted' /\ timerAt' # timerAt)
           => activeReminders' \subseteq DueNow(medications', now') ]_vars

\* ------------------------------------------------------------------ C13
\* C13, as stated: a poll started after the scheduled time of an unacted
\* instance has passed raises no DoseDue for that instance
C13_NoDoseDueOnLateStart ==
  [][\A k \in Keys :
       (~mounted /\ mounted' /\ db[k[1]] # NoMed /\ now > KeyInstant(k))
       => dueEvents'[k] = dueEvents[k]]_vars

\* C13, amended: no DoseDue is raised for an instance once the minute of its
\* scheduled time has ended, so a poll started after that minute never raises
\* one; and the list computed when the page is opened after the scheduled
\* time shows an unacted instance of the day as missed
C13_NoDoseDueAfterScheduledMinute ==
  [][ /\ \A k \in Keys :
           (db[k[1]] # NoMed /\ now >= KeyInstant(k) + TicksPerMinute)
           => dueEvents'[k] = dueEvents[k]
      /\ (~mounted /\ mounted')
           => \A j \in 1..Len(todaysReminders') :
                LET slot == medications'[todaysReminders'[j].medicationId]
                              .schedule[todaysReminders'[j].scheduleIndex + 1]
                IN (~slot.taken /\ ~slot.skipped /\ now > ScheduledTime(now, slot.time))
                     => todaysReminders'[j].status = "missed" ]_vars

\* the page opened after the minute of an unacted instance of the day has
\* ended: listed as missed, no DoseDue raised for it
C13_Witness ==
  \E k \in Keys :
    /\ mounted /\ timerAt # NoTime /\ Len(todaysReminders) > 0
    /\ k[3] = DayOf(now)
    /\ memoAt >= KeyInstant(k) + TicksPerMinute
    /\ dueEvents[k] = 0
    /\ todaysReminders[1].status = "missed"

\* ------------------------------------------------------------------ C14
\* C14, as stated: a mark-skipped that follows a mark-taken of the same
\* instance leaves the instance skipped with taken false, and currentSupply
\* and the day's taken count are back at their values before the mark-taken
C14_SkipReversesTaken ==
  [][\A m \in MedIds, i \in SlotIndexes :
       ( /\ db[m] # NoMed
         /\ resp.op = "postDose" /\ resp.status = 200 /\ resp.nth = 1
         /\ resp.med = m /\ resp.idx = i
         /\ resp'.op = "postSkip" /\ resp'.med = m /\ resp'.idx = i )
       => /\ db'[m].schedule[i + 1].skipped
          /\ ~db'[m].schedule[i + 1].taken
          /\ db'[m].refillReminder.currentSupply = resp.pre
          /\ TimesTaken(db'[m], DayOf(now)) = TimesTaken(db[m], DayOf(now)) - 1]_vars

\* ------------------------------------------------------------------ C15
\* a refill was applied by this step: the request was answered 200 and a
\* refill event was appended
RefillApplied(m) ==
  /\ db[m] # NoMed /\ db'[m] # NoMed
  /\ resp'.op = "postRefill" /\ resp'.med = m /\ resp'.status = 200
  /\ Len(db'[m].refillHistory) > Len(db[m].refillHistory)

\* C15, as stated: a successful refill appends exactly one RefillEvent,
\* increases currentSupply by exactly the quantity and sets lastRefillDate to
\* the refill date
C15_RefillAddsQuantity ==
  [][\A m \in MedIds :
       RefillApplied(m) =>
         LET event == db'[m].refillHistory[Len(db'[m].refillHistory)] IN
           /\ db'[m].refillHistory = Append(db[m].refillHistory, event)
           /\ event.quantity = resp'.idx
           /\ db'[m].refillReminder.currentSupply
                = db[m].refillReminder.currentSupply + event.quantity
           /\ db'[m].refillReminder.lastRefillDate = event.refillDate]_vars

\* ------------------------------------------------------------------ C16
\* C16: a refill request with a non-positive quantity is answered with a
\* validation error (400) and changes nothing: currentSupply, lastRefillDate
\* and the refill history of every medication are as before
C16_NonPositiveRefillRejected ==
  [][(resp'.op = "postRefill" /\ resp'.idx <= 0 /\ resp' # resp)
       => /\ resp'.status = 400
          /\ db' = db]_vars

\* a stored medication with a history of refills, the last request a refill
\* with a non-positive quantity that was rejected
C16_Witness ==
  \E m \in MedIds :
    /\ db[m] # NoMed
    /\ Len(db[m].refillHistory) > 0
    /\ resp.op = "postRefill" /\ resp.med = m /\ resp.idx <= 0 /\ resp.status = 400

\* ------------------------------------------------------------------ C17
\* C17, as stated: a refill request delivered again, with the same
\* medication, quantity and date as the refill applied last, is not applied
\* a second time: currentSupply and the refill history stay as they are
C17_DuplicateRefillAppliedOnce ==
  [][\A m \in MedIds :
       ( /\ db[m] # NoMed /\ db'[m] # NoMed
         /\ Len(db[m].refillHistory) > 0
         /\ SameCall("postRefill", m, resp'.idx)
         /\ resp'.op = "postRefill" /\ resp'.med = m /\ resp'.status = 200
         /\ Len(db'[m].refillHistory) > Len(db[m].refillHistory)
              => db'[m].refillHistory[Len(db'[m].refillHistory)]
                   = db[m].refillHistory[Len(db[m].refillHistory)] )
       => /\ db'[m].refillHistory = db[m].refillHistory
          /\ db'[m].refillReminder.currentSupply = db[m].refillReminder.currentSupply]_vars

\* ------------------------------------------------------------------ C18
\* C18, as stated: a mark-taken or mark-skipped request that names a
\* medication that does not exist, or a slot index outside the medication's
\* schedule, is answered with an error and changes nothing
C18_UnknownTargetChangesNothing ==
  [][\A m \in MedIds, i \in DoseIndexInputs :
       ( /\ resp'.op \in {"putTaken", "putSkipped", "postDose"}
         /\ resp'.med = m /\ resp'.idx = i
         /\ <<db', resp'>> # <<db, resp>>
         /\ (db[m] = NoMed \/ ~ValidIndex(db[m], i)) )
       => /\ resp'.status >= 400
          /\ db' = db]_vars

\* ------------------------------------------------------------------ C19
\* C19, as stated: the supply tier shown for a medication is Low when
\* currentSupply <= daysBeforeEmpty, Medium when currentSupply is at most twice
\* daysBeforeEmpty, and Good otherwise, for every configured daysBeforeEmpty
C19_TierFollowsDaysBeforeEmpty ==
  \A m \in MedIds :
    supplyStatus[m] # NoStatus =>
      supplyStatus[m].label =
        (IF supplyStatus[m].currentSupply <= supplyStatus[m].daysBeforeEmpty THEN "Low"
         ELSE IF supplyStatus[m].currentSupply <= 2 * supplyStatus[m].daysBeforeEmpty THEN "Medium"
         ELSE "Good")

\* ------------------------------------------------------------------ C20
\* C20, as stated: completion is kept per (medicationId, slotIndex, date): an
\* instance listed as taken on a day was marked taken on that day, a mark of
\* another day does not show, so each day starts unresolved
C20_CompletionKeyedByDate ==
  \A j \in 1..Len(todaysReminders) :
    todaysReminders[j].status = "taken"
      => DayOf(ListedSlot(j).takenAt) = DayOf(memoAt)

\* ------------------------------------------------------------------ C21
\* C21, as stated: the taken count used for adherence is the number of
\* instances whose status is taken; summed over the days, the takenDoses that
\* GET /:id/adherence reports is the number of slots marked taken
C21_TakenCountIsTakenInstances ==
  \A m \in MedIds :
    db[m] # NoMed =>
      TakenDoses(db[m]) = Cardinality({k \in Slots(m) : db[m].schedule[k].taken})

\* ------------------------------------------------------------------ C22
\* an entry of the day's list that is neither taken nor skipped and was
\* computed at exactly its scheduled instant
ListedAtInstant(j) ==
  /\ ~ListedSlot(j).taken /\ ~ListedSlot(j).skipped
  /\ memoAt = ScheduledTime(memoAt, ListedSlot(j).time)

\* C22, as stated: an unresolved instance evaluated at its scheduled time has
\* status due
C22_DueAtScheduledTime ==
  \A j \in 1..Len(todaysReminders) :
    ListedAtInstant(j) => todaysReminders[j].status = "due"

\* C22, amended: an unresolved instance evaluated at its scheduled time is
\* listed as upcoming, not missed, and the reminder poll of that instant
\* treats it as due: a DoseDue is raised for its key
C22_UpcomingAndRemindedAtScheduledTime ==
  \A j \in 1..Len(todaysReminders) :
    ListedAtInstant(j) =>
      /\ todaysReminders[j].status = "upcoming"
      /\ dueEvents[<<todaysReminders[j].medicationId, todaysReminders[j].scheduleIndex,
                     DayOf(memoAt)>>] > 0

\* the list computed at the scheduled instant of an unresolved slot, the
\* clock still at that instant
C22_Witness ==
  /\ mounted /\ memoAt = now
  /\ \E j \in 1..Len(todaysReminders) :
       ListedAtInstant(j) /\ <<todaysReminders[j].medicationId, todaysReminders[j].scheduleIndex>> \in activeReminders

\* ------------------------------------------------------------------ C23
\* C23, as stated: while the page shows the day's list, an instance that is
\* neither taken nor skipped and whose scheduled time has passed is shown as
\* missed, with nothing else having to happen first
C23_MissedOncePassed ==
  mounted =>
    \A j \in 1..Len(todaysReminders) :
      ( /\ ~ListedSlot(j).taken /\ ~ListedSlot(j).skipped
        /\ now > ScheduledTime(now, ListedSlot(j).time) )
      => todaysReminders[j].status = "missed"

\* ------------------------------------------------------------------ C24
\* C24, as stated: a call of refreshMedications that follows a successful
\* markDoseTaken sends a GET /, however recent the previous fetch
C24_RefreshAfterMutationFetches ==
  [][ ( /\ called'.n = called.n + 1 /\ called'.by = "refresh"
        /\ resp.op = "postDose" /\ resp.status = 200 )
      => Len(fetchLog') = Len(fetchLog) + 1 ]_vars

\* ------------------------------------------------------------------ C28
\* C28, as stated: when no GET / response is outstanding and every render has
\* been committed, the medications of the context, once loaded, are the
\* documents the server holds
C28_ListReflectsPersistedState ==
  (Settled /\ inFlight = <<>> /\ fetchLog # <<>>) =>
    \A m \in MedIds : medications[m] = db[m]

\* ------------------------------------------------------------------ C29
\* C29, as stated: any two GET / sent by fetchMedications are at least the
\* throttle interval apart
C29_OneFetchPerThrottleWindow ==
  \A i, j \in 1..Len(fetchLog) : i < j => fetchLog[j] - fetchLog[i] >= FetchThrottle

\* ------------------------------------------------------------------ C25
\* C25, as stated: when a run of checkReminders raises an error, the error is
\* caught and logged and the polling interval is still registered afterwards
C25_TickErrorCaughtSchedulerRuns ==
  [][ tickError'.raised > tickError.raised =>
        (tickError'.logged > tickError.logged /\ timerAt' # NoTime) ]_vars

\* ------------------------------------------------------------------ C26
HasHistory(med) ==
  \/ med.refillHistory # <<>>
  \/ med.dosesRecord # <<>>
  \/ \E k \in 1..Len(med.schedule) : med.schedule[k].taken \/ med.schedule[k].skipped

\* C26, as stated: no step removes a stored medication that has a completion
\* flag, a recorded dose or a refill event
C26_NoDeleteWhileReferenced ==
  [][ \A m \in MedIds : (db[m] # NoMed /\ HasHistory(db[m])) => db'[m] # NoMed ]_vars

\* ------------------------------------------------------------------ C27
RECURSIVE SumQuantities(_)
SumQuantities(history) ==
  IF history = <<>> THEN 0 ELSE Head(history).quantity + SumQuantities(Tail(history))

\* C27, as stated: when no refill request is in progress, currentSupply is the
\* supply before the requests plus the quantities of all refill events in the
\* history
C27_SupplyIsSumOfRefillEvents ==
  Loaded = {} =>
    \A m \in MedIds :
      db[m].refillReminder.currentSupply =
        RaceMedication.refillReminder.currentSupply + SumQuantities(db[m].refillHistory)

\* ------------------------------------------------------------------ C30
Primaries == {c \in ContactIds : contacts[c] # NoContact /\ contacts[c].isPrimary}

\* C30, as stated: at any time at most one of the user's emergency contacts
\* has isPrimary = true
C30_AtMostOnePrimary == Cardinality(Primaries) <= 1

====
